---- MODULE Spec2Model ----
(***************************************************************************)
(* A model of the requirements graph of clarity-ai: the colour service     *)
(* (util/tagColors.js and its copy in lib/api-service.js), the graph build *)
(* effect of RequirementsGraph, its selection effect, its click, hover and *)
(* drag handlers, the life cycle of its d3 simulation, and the Tag chip.   *)
(*                                                                         *)
(* JavaScript strings are sequences of one-character strings, so that      *)
(* toLowerCase, includes and the template strings `req:${..}`, `tag:${..}` *)
(* and `source:${..}` are computed, not assumed.  An optional value (a     *)
(* prop or field that may be null or undefined) is <<>> when absent and    *)
(* <<v>> when present.                                                     *)
(***************************************************************************)
EXTENDS Integers, Sequences, FiniteSets, TLC

None == <<>>
Some(v) == <<v>>

-----------------------------------------------------------------------------
(* Bounds of the model.                                                    *)

\* entities in an input list of the build specification
MaxEntities == 3
\* colours of each random palette that the model keeps (the code has 13)
PaletteSize == 2
\* simulations created in one behaviour of the life-cycle specification
MaxBuilds == 2

-----------------------------------------------------------------------------
(* Strings.                                                                *)

UpperChars == <<"A","B","C","D","E","F","G","H","I","J","K","L","M",
                "N","O","P","Q","R","S","T","U","V","W","X","Y","Z">>
LowerChars == <<"a","b","c","d","e","f","g","h","i","j","k","l","m",
                "n","o","p","q","r","s","t","u","v","w","x","y","z">>

\* the lower-case letter of each upper-case letter
LowerOf ==
  [c \in {UpperChars[i] : i \in 1..Len(UpperChars)} |->
     LowerChars[CHOOSE i \in 1..Len(UpperChars) : UpperChars[i] = c]]

\* String.prototype.toLowerCase, one character
toLowerChar(c) == IF c \in DOMAIN LowerOf THEN LowerOf[c] ELSE c

\* String.prototype.toLowerCase
toLowerCase(s) == [i \in 1..Len(s) |-> toLowerChar(s[i])]

\* String.prototype.includes
includes(s, m) ==
  \E i \in 0..(Len(s) - Len(m)) : SubSeq(s, i + 1, i + Len(m)) = m

ReqPrefix == <<"r","e","q",":">>
TagPrefix == <<"t","a","g",":">>
SourcePrefix == <<"s","o","u","r","c","e",":">>
UnknownSource == <<"u","n","k","n","o","w","n","-","s","o","u","r","c","e">>

-----------------------------------------------------------------------------
(* The colour service: util/tagColors.js, and the second definition at the *)
(* end of lib/api-service.js with its own rules, palette, cache and        *)
(* used-set.                                                               *)

TagColorsModule == "util/tagColors"
ApiServiceModule == "lib/api-service"
ColorModules == {TagColorsModule, ApiServiceModule}

RuleMatches ==
  << <<"h","i","g","h"," ","p","r","i","o","r","i","t","y">>,
     <<"m","e","d","i","u","m"," ","p","r","i","o","r","i","t","y">>,
     <<"l","o","w"," ","p","r","i","o","r","i","t","y">>,
     <<"s","e","c","u","r","i","t","y">>,
     <<"u","x">>,
     <<"u","i">>,
     <<"a","u","t","h","e","n","t","i","c","a","t","i","o","n">>,
     <<"p","e","r","f","o","r","m","a","n","c","e">> >>

TagColorsRuleColors ==
  <<"#d62728", "#f9c700ff", "#2ca02c", "#9467bd",
    "#17befc", "#051675ff", "#085404ff", "#e377c2">>

ApiServiceRuleColors ==
  <<"#ff0000ff", "#f9c700ff", "#47fc00ff", "#800af6ff",
    "#0674fbff", "#051675ff", "#085404ff", "#e879f9">>

predefinedColors(module) ==
  [i \in 1..Len(RuleMatches) |->
     [match |-> RuleMatches[i],
      color |-> IF module = TagColorsModule
                THEN TagColorsRuleColors[i] ELSE ApiServiceRuleColors[i]]]

TagColorsPalette ==
  <<"#00FFD1", "#FF6F00", "#00A1FF", "#FF00A8", "#7FFF00", "#8c00ff53",
    "#ff004c36", "#00FF66", "#FFB300", "#004CFF", "#FF8500", "#00FFE1",
    "#B200FF">>

ApiServicePalette ==
  <<"#f87171", "#fb923c", "#fbbf24", "#00ffddff", "#bfff00ff", "#2dd4bf",
    "#38bdf8", "#60a5fa", "#818cf8", "#a78bfa", "#c084fc", "#e879f9",
    "#f472b6">>

\* the palette of a module, cut to its first PaletteSize colours
randomPalette(module) ==
  LET full == IF module = TagColorsModule THEN TagColorsPalette
                                          ELSE ApiServicePalette
      n == IF PaletteSize < Len(full) THEN PaletteSize ELSE Len(full)
  IN SubSeq(full, 1, n)

PaletteSet(module) ==
  {randomPalette(module)[i] : i \in 1..Len(randomPalette(module))}

\* Map.prototype.has / get / set on tagColorCache, a function on its keys
CacheHas(cache, key) == key \in DOMAIN cache

\* a set that forgets every other key
CacheSetForgets(cache, key, color) == [k \in {key} |-> color]

CacheSet(cache, key, color) ==
  [k \in (DOMAIN cache) \cup {key} |-> IF k = key THEN color ELSE cache[k]]
EmptyCache == [k \in {} |-> "none"]

\* a choice among all colours of the palette, used or not
getRandomPaletteColorUnfiltered(module, usedColors) ==
  {[color |-> randomPalette(module)[i],
    usedColors |-> usedColors \cup {randomPalette(module)[i]}] :
     i \in 1..Len(randomPalette(module))}

\* getRandomPaletteColor: Math.random is a choice among the candidates.
\* The set of outcomes [color, usedColors].
getRandomPaletteColor(module, usedColors) ==
  LET palette == randomPalette(module)
      availableColors == SelectSeq(palette, LAMBDA c : c \notin usedColors)
  IN IF Len(availableColors) = 0
     THEN {[color |-> palette[i], usedColors |-> {palette[i]}] :
             i \in 1..Len(palette)}
     ELSE {[color |-> availableColors[i],
            usedColors |-> usedColors \cup {availableColors[i]}] :
             i \in 1..Len(availableColors)}

\* the last rule whose match the lowercased name includes, 0 when none
LastRule(module, lower) ==
  LET rules == predefinedColors(module)
      hits == {i \in 1..Len(rules) : includes(lower, rules[i].match)}
  IN IF hits = {} THEN 0 ELSE CHOOSE i \in hits : \A j \in hits : i >= j

\* the first rule whose match the lowercased name includes, 0 when none
FirstRule(module, lower) ==
  LET rules == predefinedColors(module)
      hits == {i \in 1..Len(rules) : includes(lower, rules[i].match)}
  IN IF hits = {} THEN 0 ELSE CHOOSE i \in hits : \A j \in hits : i <= j

\* the name as given, not lowercased
LowerAsGiven(tagName) == tagName

\* const lower = tagName.toLowerCase(): what the rules are matched against
\* and the key of the cache
Lower(tagName) == toLowerCase(tagName)

\* getTagColor on the state st = [cache, used] of one module.
\* The set of outcomes [color, st].
getTagColor(module, tagName, st) ==
  LET lower == Lower(tagName)
      rule == FirstRule(module, lower)
  IN IF rule # 0
     THEN {[color |-> predefinedColors(module)[rule].color, st |-> st]}
     ELSE IF CacheHas(st.cache, lower)
     THEN {[color |-> st.cache[lower], st |-> st]}
     ELSE {[color |-> o.color,
            st |-> [cache |-> CacheSet(st.cache, lower, o.color),
                    used |-> o.usedColors]] :
             o \in getRandomPaletteColor(module, st.used)}

\* forEach over a list of names, calling getTagColor on each in order.
\* The set of outcomes [colors, st], colors in the order of names.
RECURSIVE getTagColorAll(_, _, _)
getTagColorAll(module, names, st) ==
  IF names = <<>>
  THEN {[colors |-> <<>>, st |-> st]}
  ELSE UNION {{[colors |-> <<o.color>> \o r.colors, st |-> r.st] :
                 r \in getTagColorAll(module, Tail(names), o.st)} :
              o \in getTagColor(module, Head(names), st)}

-----------------------------------------------------------------------------
(* The graph build effect of RequirementsGraph.                            *)
(* An entity is [req_id, tags, source_document_filename]; tags is an       *)
(* optional list of tag names, source_document_filename an optional name.  *)

\* a JavaScript Map keeps its keys in insertion order: a sequence of
\* [key, val] with pairwise different keys
MapHas(m, k) == \E i \in 1..Len(m) : m[i].key = k
MapGet(m, k) == m[CHOOSE i \in 1..Len(m) : m[i].key = k].val
MapKeys(m) == [i \in 1..Len(m) |-> m[i].key]
\* a list of pairs that gets a new pair with every push
MapPushNewEntry(m, k, v) == Append(m, [key |-> k, val |-> <<v>>])
\* if (!m.has(k)) m.set(k, []); m.get(k).push(v)
MapPush(m, k, v) ==
  IF MapHas(m, k)
  THEN [i \in 1..Len(m) |->
          IF m[i].key = k THEN [key |-> k, val |-> Append(m[i].val, v)]
                          ELSE m[i]]
  ELSE Append(m, [key |-> k, val |-> <<v>>])

\* `req:${req.req_id}`
ReqNodeId(req) == ReqPrefix \o req.req_id
\* a tag node id that ignores case
TagNodeIdLowerCase(name) == TagPrefix \o toLowerCase(name)
\* `tag:${tag.name}`
TagNodeId(name) == TagPrefix \o name
\* a sentinel of its own for every entity without a source document
SourceFilenamePerEntity(req) ==
  IF req.source_document_filename = None
  THEN UnknownSource \o req.req_id ELSE req.source_document_filename[1]
\* req.source_document_filename ?? 'unknown-source'
SourceFilename(req) ==
  IF req.source_document_filename = None
  THEN UnknownSource ELSE req.source_document_filename[1]
\* req.tags?.forEach: the tags visited, none when the list is absent
TagsOf(req) == IF req.tags = None THEN <<>> ELSE req.tags[1]

ReqNode(req) ==
  [id |-> ReqNodeId(req), type |-> "requirement", label |-> req.req_id,
   sourceDocument |-> Some(SourceFilename(req)), color |-> None]
TagNode(name, color) ==
  [id |-> TagNodeId(name), type |-> "tag", label |-> name,
   sourceDocument |-> None, color |-> Some(color)]

\* the first forEach: requirement nodes, nodeMap (its keys),
\* sourceToRequirements and tagToRequirements
RECURSIVE PushAll(_, _, _)
PushAll(m, keys, v) ==
  IF keys = <<>> THEN m ELSE PushAll(MapPush(m, Head(keys), v), Tail(keys), v)

RECURSIVE BuildRequirementNodes(_, _, _)
BuildRequirementNodes(requirements, i, acc) ==
  IF i > Len(requirements) THEN acc
  ELSE LET req == requirements[i]
       IN BuildRequirementNodes(requirements, i + 1,
            [nodes |-> Append(acc.nodes, ReqNode(req)),
             nodeMap |-> acc.nodeMap \cup {ReqNodeId(req)},
             sourceToRequirements |->
               MapPush(acc.sourceToRequirements, SourceFilename(req),
                       ReqNodeId(req)),
             tagToRequirements |->
               PushAll(acc.tagToRequirements, TagsOf(req), ReqNodeId(req))])

\* the (entity, tag) pairs in the order the second forEach visits them
RECURSIVE Memberships(_, _)
Memberships(requirements, i) ==
  IF i > Len(requirements) THEN <<>>
  ELSE [k \in 1..Len(TagsOf(requirements[i])) |->
          [req |-> requirements[i], name |-> TagsOf(requirements[i])[k]]]
       \o Memberships(requirements, i + 1)

\* a build that never looks the tag id up in nodeMap
TagNodeAlwaysMissing(nodeMap, tagId) == TRUE

\* if (!nodeMap.has(tagId)): whether a tag node is created for tagId
TagNodeMissing(nodeMap, tagId) == tagId \notin nodeMap

\* a has-tag link whose source is the bare req_id, not the node id
HasTagLinkFromReqId(req, tagId) ==
  [source |-> req.req_id, target |-> tagId, type |-> "has-tag",
   sourceDocument |-> None]

\* the link pushed for one (entity, tag) pair
HasTagLink(req, tagId) ==
  [source |-> ReqNodeId(req), target |-> tagId, type |-> "has-tag",
   sourceDocument |-> None]

\* a second forEach that pushes the link inside the if, with the tag node
RECURSIVE BuildTagNodesLinkInsideIf(_, _, _)
BuildTagNodesLinkInsideIf(pairs, sharedTagColorMap, acc) ==
  IF pairs = <<>> THEN acc
  ELSE LET p == Head(pairs)
           tagId == TagNodeId(p.name)
           missing == tagId \notin acc.nodeMap
       IN BuildTagNodesLinkInsideIf(Tail(pairs), sharedTagColorMap,
            [nodes |-> IF missing
                       THEN Append(acc.nodes,
                                   TagNode(p.name, sharedTagColorMap[p.name]))
                       ELSE acc.nodes,
             nodeMap |-> IF missing THEN acc.nodeMap \cup {tagId}
                                    ELSE acc.nodeMap,
             links |-> IF missing
                       THEN Append(acc.links,
                                   [source |-> ReqNodeId(p.req),
                                    target |-> tagId, type |-> "has-tag",
                                    sourceDocument |-> None])
                       ELSE acc.links])

\* the second forEach: tag nodes and has-tag links
RECURSIVE BuildTagNodes(_, _, _)
BuildTagNodes(pairs, sharedTagColorMap, acc) ==
  IF pairs = <<>> THEN acc
  ELSE LET p == Head(pairs)
           tagId == TagNodeId(p.name)
           missing == TagNodeMissing(acc.nodeMap, tagId)
       IN BuildTagNodes(Tail(pairs), sharedTagColorMap,
            [nodes |-> IF missing
                       THEN Append(acc.nodes,
                                   TagNode(p.name, sharedTagColorMap[p.name]))
                       ELSE acc.nodes,
             nodeMap |-> IF missing THEN acc.nodeMap \cup {tagId}
                                    ELSE acc.nodeMap,
             links |-> Append(acc.links, HasTagLink(p.req, tagId))])

\* for (i ...) for (j = i + 1 ...) links.push(same-source) on one group
PairLinks(reqIds, sourceFilename) ==
  LET pairs == {<<i, j>> \in (1..Len(reqIds)) \X (1..Len(reqIds)) : i < j}
      \* the position of pair (i, j) in the order of the nested loops
      Rank(p) == Cardinality({q \in pairs :
                    q[1] < p[1] \/ (q[1] = p[1] /\ q[2] <= p[2])})
  IN [k \in 1..Cardinality(pairs) |->
        LET p == CHOOSE q \in pairs : Rank(q) = k
        IN [source |-> reqIds[p[1]], target |-> reqIds[p[2]],
            type |-> "same-source", sourceDocument |-> Some(sourceFilename)]]

\* sourceToRequirements.forEach: the same-source links of every group
RECURSIVE BuildSameSourceLinks(_, _)
BuildSameSourceLinks(sourceToRequirements, i) ==
  IF i > Len(sourceToRequirements) THEN <<>>
  ELSE PairLinks(sourceToRequirements[i].val, sourceToRequirements[i].key)
       \o BuildSameSourceLinks(sourceToRequirements, i + 1)

\* every document at the angle of the first
SourceCentersAtOneAngle(uniqueSources) ==
  [i \in 1..Len(uniqueSources) |->
     [key |-> uniqueSources[i],
      val |-> [idx |-> 0,
               of |-> IF Len(uniqueSources) > 1 THEN Len(uniqueSources)
                                                ELSE 1]]]

\* sourceCenters: document idx of n sits at angle idx / max(1, n) of the
\* full turn on the circle of clusterRadius around the centre; the anchor
\* is kept as that fraction [idx, of]
SourceCenters(uniqueSources) ==
  [i \in 1..Len(uniqueSources) |->
     [key |-> uniqueSources[i],
      val |-> [idx |-> i - 1,
               of |-> IF Len(uniqueSources) > 1 THEN Len(uniqueSources)
                                                ELSE 1]]]

\* the document name itself as the key
SourceKeyBare(src) == src
\* `source:${src}`
SourceKey(src) == SourcePrefix \o src

\* the target of forceX and forceY for node d: for a requirement
\* sourceCenters.get(d.sourceDocument)?.x || centerX, for a tag centerX,
\* and the same in y.  Some(anchor), or None for the centre; the
\* coordinates of an anchor are never 0, since clusterRadius is 0.28 of the
\* smaller side and the centre is at half of each side.
ForceTarget(d, sourceCenters) ==
  IF d.type = "requirement" /\ d.sourceDocument # None
       /\ MapHas(sourceCenters, d.sourceDocument[1])
  THEN Some(MapGet(sourceCenters, d.sourceDocument[1]))
  ELSE None

\* The model the build effect computes from a non-empty list, with the
\* colour calls it makes on the state st of the module it imports.
\* The set of outcomes.
BuildGraph(module, requirements, st) ==
  LET first == BuildRequirementNodes(requirements, 1,
                 [nodes |-> <<>>, nodeMap |-> {},
                  sourceToRequirements |-> <<>>, tagToRequirements |-> <<>>])
      allTagsList == MapKeys(first.tagToRequirements)
      uniqueSources == MapKeys(first.sourceToRequirements)
      sourceKeys == [i \in 1..Len(uniqueSources) |->
                       SourceKey(uniqueSources[i])]
  IN UNION {
       {LET sharedTagColorMap ==
              [n \in {allTagsList[i] : i \in 1..Len(allTagsList)} |->
                 t.colors[CHOOSE i \in 1..Len(allTagsList) :
                            allTagsList[i] = n]]
            second == BuildTagNodes(Memberships(requirements, 1),
                        sharedTagColorMap,
                        [nodes |-> first.nodes, nodeMap |-> first.nodeMap,
                         links |-> <<>>])
        IN [nodes |-> second.nodes,
            links |-> second.links
                      \o BuildSameSourceLinks(first.sourceToRequirements, 1),
            allTags |-> allTagsList,
            sourceToRequirements |-> first.sourceToRequirements,
            sourceCenters |-> SourceCenters(uniqueSources),
            sourceColorMap |->
              [i \in 1..Len(uniqueSources) |->
                 [key |-> uniqueSources[i], val |-> s.colors[i]]],
            calls |-> [i \in 1..Len(allTagsList) |->
                         [name |-> allTagsList[i], color |-> t.colors[i]]]
                      \o [i \in 1..Len(sourceKeys) |->
                            [name |-> sourceKeys[i], color |-> s.colors[i]]],
            st |-> s.st] :
          s \in getTagColorAll(module, sourceKeys, t.st)} :
       t \in getTagColorAll(module, allTagsList, st)}

-----------------------------------------------------------------------------
(* Inputs.                                                                 *)

S_UI == <<"U","I">>
S_ui == <<"u","i">>
S_A == <<"A">>
S_a == <<"a">>
S_B == <<"B">>
S_Draft == <<"D","r","a","f","t">>
S_Security == <<"S","e","c","u","r","i","t","y">>
S_security == <<"s","e","c","u","r","i","t","y">>
S_UISecurity == <<"U","I"," ","S","e","c","u","r","i","t","y">>
S_doc1 == <<"d","o","c","1">>
S_uxpdf == <<"u","x",".","p","d","f">>
S_1 == <<"1">>
S_2 == <<"2">>
S_3 == <<"3">>

ReqIds == <<S_1, S_2, S_3>>

Entity(id, tags, doc) ==
  [req_id |-> id, tags |-> tags, source_document_filename |-> doc]

\* What an entity of the build specification carries besides its id.  The
\* tags are absent, empty, one tag, or a list with a tag that differs from
\* it only in case and another tag twice; the document is absent or named.
Attrs ==
  { [tags |-> None, source_document_filename |-> None],
    [tags |-> Some(<<>>), source_document_filename |-> Some(S_doc1)],
    [tags |-> Some(<<S_UI>>), source_document_filename |-> Some(S_doc1)],
    [tags |-> Some(<<S_UI>>), source_document_filename |-> None],
    [tags |-> Some(<<S_ui, S_A, S_A>>),
     source_document_filename |-> Some(S_doc1)] }

\* The build only compares ids with each other, so a list stands for every
\* list that renames its ids: the lists kept name their ids in the order of
\* ReqIds as they first appear.
IdPatterns(k) ==
  {p \in [1..k -> 1..Len(ReqIds)] :
     \A i \in 1..k : p[i] <= Cardinality({p[j] : j \in 1..(i - 1)}) + 1}

\* the list of k entities with the ids of pattern p and the rest from a
ListOf(k, p, a) ==
  [i \in 1..k |->
     Entity(ReqIds[p[i]], a[i].tags, a[i].source_document_filename)]

\* the lists the sharing specification switches between: missing, empty,
\* the scenario of two entities with one tag and one document, and a list
\* with a tag that matches no rule
ReqLists ==
  { None,
    Some(<<>>),
    Some(<<Entity(S_1, Some(<<S_UI>>), Some(S_uxpdf)),
           Entity(S_2, Some(<<S_UI>>), Some(S_uxpdf))>>),
    Some(<<Entity(S_1, Some(<<S_A>>), Some(S_uxpdf))>>) }

\* the lists of the life-cycle specification, whose names all match a
\* rule, so that every colour is fixed: missing, empty, two entities with
\* one tag and one document, and one entity without tags
LifeLists ==
  { None,
    Some(<<>>),
    Some(<<Entity(S_1, Some(<<S_UI>>), Some(S_uxpdf)),
           Entity(S_2, Some(<<S_UI>>), Some(S_uxpdf))>>),
    Some(<<Entity(S_1, None, Some(S_uxpdf))>>) }

\* the lists of the selection specification, whose names all match a rule:
\* empty, two entities of one document with a tag in common and a tag of
\* the first alone, and one entity with one tag
SelectLists ==
  { Some(<<>>),
    Some(<<Entity(S_1, Some(<<S_UI, S_Security>>), Some(S_uxpdf)),
           Entity(S_2, Some(<<S_UI>>), Some(S_uxpdf))>>),
    Some(<<Entity(S_1, Some(<<S_UI>>), Some(S_uxpdf))>>) }

\* the lists of the drag specification: empty, and one entity with one
\* tag
DragLists ==
  { Some(<<>>),
    Some(<<Entity(S_1, Some(<<S_UI>>), Some(S_uxpdf))>>) }

\* the Tag chips rendered beside the graph: tags of the graph and another
\* tag, and the status chips
ChipProps ==
  [name : {S_UI, S_A, S_B}, type : {"default"}]
    \cup [name : {S_Draft}, type : {"status"}]

\* a name of n letters z, which matches no rule
Zs(n) == [i \in 1..n |-> "z"]

\* names asked of the colour service in the colour specification: names
\* that match a rule, in both cases, a name that matches two rules, the
\* later rule earlier in the name, a name that matches none, in both
\* cases, and one more name that matches none than the palette has colours
ColorNames ==
  {S_UI, S_ui, S_Security, S_security, S_UISecurity, S_A, S_a}
    \cup {Zs(n) : n \in 1..PaletteSize}

\* the call sites of getTagColor: the build effect, the legend, the Tag chip
Consumers == {"graph", "legend", "chip"}

\* the Tag chip importing the definition of lib/api-service.js
ImportOfChipFromApiService(consumer) ==
  IF consumer = "chip" THEN ApiServiceModule ELSE TagColorsModule

\* the module each call site imports getTagColor from
ImportOf(consumer) == TagColorsModule

Pointers == {"mouse", "touch"}

-----------------------------------------------------------------------------
(* State.                                                                  *)

VARIABLES
  colorSvc,      \* module -> [cache, used]: tagColorCache and usedColors
  lastCalls,     \* the getTagColor calls of the last step: [consumer, name, color]
  seen,          \* every [consumer, name, color] a call has returned so far
  requirements,  \* the requirements prop
  mounted,       \* whether the component is mounted
  view,          \* what render returned: "none", "empty" or "graph"
  nodes,         \* the nodes bound to the svg
  links,         \* the links bound to the svg
  closure,       \* what the handlers of the current build close over:
                 \* Some([sourceToRequirements, sourceColorMap,
                 \* sourceCenters, targets]), or None; targets are the
                 \* targets of forceX and forceY per node
  lines,         \* per link, the attributes of its line: [stroke, opacity, width]
  circles,       \* per node, the attributes of its first circle, the
                 \* highlight circle: [opacity, stroke, width]
  mains,         \* per node, the attributes of its second circle, the main
                 \* circle: [opacity, stroke, width]
  hovered,       \* the link the pointer is over, or None
  pos,           \* per node, its position <<x, y>>
  pin,           \* per node, its fixed position <<fx, fy>>, or None
  transform,     \* per node, the translate(x, y) of its group, None
                 \* before the first tick
  ends,          \* per link, <<x1, y1>> and <<x2, y2>> of its line: Some of
                 \* the pair, None before the first tick
  allTags,       \* React state allTags
  legend,        \* the legend entries rendered: [name, color]
  selectedTag,   \* React state selectedTag
  sims,          \* every simulation created: [running, stops, alphaTarget]
  cleanup,       \* the simulation the pending effect cleanup will stop
  gestures,      \* active drag gestures: [pointer, sim, node]
  chip,          \* the Tag chip rendered last: Some([name, type,
                 \* backgroundColor]), or None
  crashed,       \* whether an exception escaped the component
  event          \* the click, hover or tick event the last step handled, or
                 \* None: Some([type, node]) for a click, Some([type, link,
                 \* lines, circles]) for a mouseover, with the styles its
                 \* listener found, Some([type]) for a mouseout, Some([type,
                 \* sim]) for a tick

\* the component, its document and the colour service
program == <<colorSvc, lastCalls, seen, requirements, mounted, view, nodes,
             links, closure, lines, circles, mains, hovered, pos, pin,
          transform, ends, allTags,
             legend, selectedTag, sims, cleanup, gestures, chip, crashed>>

vars == <<colorSvc, lastCalls, seen, requirements, mounted, view, nodes,
          links, closure, lines, circles, mains, hovered, pos, pin,
          transform, ends, allTags, legend,
          selectedTag, sims, cleanup, gestures, chip, crashed, event>>

\* the svg and what is bound to it
dom == <<nodes, links, closure, lines, circles, mains, hovered, pos, pin,
          transform, ends>>

EmptySvc == [m \in ColorModules |-> [cache |-> EmptyCache, used |-> {}]]

\* the state before the component is mounted, but for the prop
InitRest ==
  /\ colorSvc = EmptySvc
  /\ lastCalls = <<>>
  /\ seen = {}
  /\ mounted = FALSE
  /\ view = "none"
  /\ nodes = <<>>
  /\ links = <<>>
  /\ closure = None
  /\ lines = <<>>
  /\ circles = <<>>
  /\ hovered = None
  /\ pos = <<>>
  /\ pin = <<>>
  /\ mains = <<>>
  /\ transform = <<>>
  /\ ends = <<>>
  /\ allTags = <<>>
  /\ legend = <<>>
  /\ selectedTag = None
  /\ sims = <<>>
  /\ cleanup = None
  /\ gestures = {}
  /\ chip = None
  /\ crashed = FALSE
  /\ event = None

Init == InitRest /\ requirements = None

-----------------------------------------------------------------------------
(* The component: render, the build effect and its cleanup, the selection  *)
(* effect.                                                                 *)

\* a build effect without the guard
EffectNeverReturnsEarly(reqs) == FALSE

\* the guard of the build effect: !requirements || requirements.length === 0
EffectReturnsEarly(reqs) == reqs = None \/ Len(reqs[1]) = 0

\* the guard of the empty state in render, the same condition
RendersEmptyState(reqs) == reqs = None \/ Len(reqs[1]) = 0

Call(consumer, name, color) ==
  [consumer |-> consumer, name |-> name, color |-> color]

\* the record of what the calls of a step returned
Record(calls) == seen \cup {calls[i] : i \in 1..Len(calls)}

\* d3.forceSimulation(...): a new simulation runs from its creation
NewSimulation == [running |-> TRUE, stops |-> 0, alphaTarget |-> 0]

\* simulation.stop()
Stopped(sim) == [sim EXCEPT !.running = FALSE, !.stops = @ + 1]

\* a build effect that returns no cleanup
RunNoCleanup(ss, cl) == ss

\* a cleanup that stops the simulation through the closure and through
\* simulationRef as well
RunCleanupStopsTwice(ss, cl) ==
  IF cl = None THEN ss ELSE [ss EXCEPT ![cl[1]] = Stopped(Stopped(@))]

\* the cleanup the build effect returned, run before the effect runs again
\* and when the component unmounts: () => simulation.stop()
RunCleanup(ss, cl) ==
  IF cl = None THEN ss ELSE [ss EXCEPT ![cl[1]] = Stopped(@)]

\* where forceSimulation(nodes) first places node i: a fixed function of
\* its index, different for different nodes
InitialPoint(i) == <<i, i>>

\* the line joined to a link: stroke, stroke-opacity (in hundredths) and
\* stroke-width
LineOf(link, sourceColorMap) ==
  [stroke |-> IF link.type = "has-tag" THEN "#999"
              ELSE IF MapHas(sourceColorMap, link.sourceDocument[1])
              THEN MapGet(sourceColorMap, link.sourceDocument[1])
              ELSE "#0d9488",
   opacity |-> IF link.type = "has-tag" THEN 60 ELSE 45,
   width |-> 2]

\* the highlight circle appended to a node: no opacity attribute, no stroke
HighlightCircle == [opacity |-> None, stroke |-> "none", width |-> 0]

\* the main circle appended to a node after the highlight circle: no
\* opacity attribute; selectedNode is never set to a node
MainCircle(d) == [opacity |-> None, stroke |-> "#000000aa", width |-> 2]

\* new Set(array)
SetOf(s) == {s[i] : i \in 1..Len(s)}

\* highlightSource(sourceFilename) on node.select('circle'), which is the
\* first circle of each node: opacity (in hundredths), stroke, stroke-width
highlightSource(ns, cl, sourceFilename) ==
  LET reqIds == IF MapHas(cl.sourceToRequirements, sourceFilename)
                THEN SetOf(MapGet(cl.sourceToRequirements, sourceFilename))
                ELSE {}
  IN [i \in 1..Len(ns) |->
        LET hit == ns[i].type = "requirement" /\ ns[i].id \in reqIds
        IN [opacity |-> Some(IF hit THEN 100 ELSE 25),
            stroke |-> IF hit THEN MapGet(cl.sourceColorMap, sourceFilename)
                              ELSE "#000000aa",
            width |-> IF hit THEN 3 ELSE 1]]

\* resetHighlight() on the same circles; selectedNode is never set to a node
resetHighlight(ns) ==
  [i \in 1..Len(ns) |->
     [opacity |-> Some(100), stroke |-> "#000000aa", width |-> 2]]

\* String.prototype.replace(m, ''): s without the first occurrence of m
replaceFirst(s, m) ==
  IF includes(s, m)
  THEN LET i == CHOOSE i \in 0..(Len(s) - Len(m)) :
                  /\ SubSeq(s, i + 1, i + Len(m)) = m
                  /\ \A j \in 0..(i - 1) : SubSeq(s, j + 1, j + Len(m)) # m
       IN SubSeq(s, 1, i) \o SubSeq(s, i + Len(m) + 1, Len(s))
  ELSE s

\* The effect on [selectedTag, selectedNode]: the stroke and stroke-width of
\* every line and of every highlight circle, asking getTagColor for the
\* colour of each same-source line and of each highlighted circle.  The
\* selections visit an element more than once, with the same result.
\* The set of outcomes [lines, circles, calls, st].
SelectionEffect(module, ls, ns, lns, cs, sel, st) ==
  LET selected(l) == sel # None /\ l.target = sel[1]
      asks(k) == ls[k].type = "same-source" /\ ls[k].sourceDocument[1] # <<>>
      lit(i) == /\ sel # None
                /\ ns[i].type = "requirement"
                /\ \E k \in 1..Len(ls) :
                     ls[k].source = ns[i].id /\ ls[k].target = sel[1]
      \* the lines and the circles whose colour is asked, in order
      lineIdx == SelectSeq([k \in 1..Len(ls) |-> k], asks)
      circleIdx == SelectSeq([i \in 1..Len(ns) |-> i], lit)
      names == [j \in 1..Len(lineIdx) |->
                  SourceKey(ls[lineIdx[j]].sourceDocument[1])]
               \o [j \in 1..Len(circleIdx) |-> replaceFirst(sel[1], TagPrefix)]
      target(l) == ns[CHOOSE i \in 1..Len(ns) : ns[i].id = l.target]
  IN {[lines |->
         [k \in 1..Len(ls) |->
            [stroke |->
               IF ls[k].type = "has-tag"
               THEN IF selected(ls[k]) THEN target(ls[k]).color[1] ELSE "#999"
               ELSE IF asks(k)
               THEN r.colors[CHOOSE j \in 1..Len(lineIdx) : lineIdx[j] = k]
               ELSE "#0d9488",
             opacity |-> lns[k].opacity,
             width |-> IF ls[k].type = "has-tag" /\ selected(ls[k])
                       THEN 4 ELSE 2]],
       circles |->
         [i \in 1..Len(ns) |->
            [opacity |-> cs[i].opacity,
             stroke |->
               IF lit(i)
               THEN r.colors[Len(lineIdx)
                             + (CHOOSE j \in 1..Len(circleIdx) :
                                  circleIdx[j] = i)]
               ELSE "none",
             width |-> IF lit(i) THEN 4 ELSE 0]],
       calls |-> [j \in 1..Len(names) |->
                    Call("graph", names[j], r.colors[j])],
       st |-> r.st] :
      r \in getTagColorAll(module, names, st)}

\* allTags.map(...) of the render: one legend entry per name of allTags,
\* each asking getTagColor.  The set of outcomes [legend, calls, st].
RenderLegend(tags, st) ==
  {[legend |-> [i \in 1..Len(tags) |->
                  [name |-> tags[i], color |-> r.colors[i]]],
    calls |-> [i \in 1..Len(tags) |->
                 Call("legend", tags[i], r.colors[i])],
    st |-> r.st] :
     r \in getTagColorAll(ImportOf("legend"), tags, st)}

SvcWith(svc, consumer, st) == [svc EXCEPT ![ImportOf(consumer)] = st]

\* the svg leaves the document with everything bound to it
NoSvg ==
  /\ nodes' = <<>>
  /\ links' = <<>>
  /\ closure' = None
  /\ lines' = <<>>
  /\ circles' = <<>>
  /\ hovered' = None
  /\ pos' = <<>>
  /\ pin' = <<>>
  /\ mains' = <<>>
  /\ transform' = <<>>
  /\ ends' = <<>>

\* an exception escapes the effect: React unmounts the tree
Crash ==
  /\ crashed' = TRUE
  /\ view' = "none"
  /\ NoSvg
  /\ legend' = <<>>
  /\ lastCalls' = <<>>
  /\ sims' = RunCleanup(sims, cleanup)
  /\ cleanup' = None
  /\ UNCHANGED <<colorSvc, allTags>>

\* a render with no effect due
RenderOnly(reqs) ==
  IF RendersEmptyState(reqs)
  THEN /\ view' = "empty"
       /\ legend' = <<>>
       /\ lastCalls' = <<>>
       /\ UNCHANGED <<colorSvc, dom, allTags, sims, cleanup, crashed>>
  ELSE \E r \in RenderLegend(allTags, colorSvc[ImportOf("legend")]) :
         /\ view' = "graph"
         /\ legend' = r.legend
         /\ lastCalls' = r.calls
         /\ colorSvc' = SvcWith(colorSvc, "legend", r.st)
         /\ UNCHANGED <<dom, allTags, sims, cleanup, crashed>>

\* One commit of the component with a changed prop reqs: render, the
\* cleanup of the previous build effect, the build effect, on the first
\* commit the selection effect, and the render that setAllTags and
\* setTagColorMap cause.
Commit(reqs, first) ==
  IF RendersEmptyState(reqs)
  THEN \* the empty state replaces the svg in the document
       IF EffectReturnsEarly(reqs)
       THEN /\ view' = "empty"
            /\ NoSvg
            /\ legend' = <<>>
            /\ lastCalls' = <<>>
            /\ sims' = RunCleanup(sims, cleanup)
            /\ cleanup' = None
            /\ UNCHANGED <<colorSvc, allTags, crashed>>
       ELSE \* svgRef.current is null: getBoundingClientRect throws
            Crash
  ELSE IF EffectReturnsEarly(reqs)
  THEN \* the svg is rendered and the effect leaves it as it is
       \E r \in RenderLegend(allTags, colorSvc[ImportOf("legend")]) :
         /\ view' = "graph"
         /\ legend' = r.legend
         /\ lastCalls' = r.calls
         /\ colorSvc' = SvcWith(colorSvc, "legend", r.st)
         /\ sims' = RunCleanup(sims, cleanup)
         /\ cleanup' = None
         /\ UNCHANGED <<dom, allTags, crashed>>
  ELSE IF reqs = None
  THEN \* requirements.forEach on null throws
       Crash
  ELSE \* render with the allTags of the previous build, cleanup, build,
       \* render with the new allTags
       \E r1 \in RenderLegend(allTags, colorSvc[ImportOf("legend")]) :
       LET svc1 == SvcWith(colorSvc, "legend", r1.st) IN
       \E b \in BuildGraph(ImportOf("graph"), reqs[1],
                           svc1[ImportOf("graph")]) :
       LET svc2 == SvcWith(svc1, "graph", b.st)
           joined == [k \in 1..Len(b.links) |->
                        LineOf(b.links[k], b.sourceColorMap)]
           appended == [i \in 1..Len(b.nodes) |-> HighlightCircle]
       IN
       \E e \in IF first
                THEN SelectionEffect(ImportOf("graph"), b.links, b.nodes,
                       joined, appended, selectedTag,
                       svc2[ImportOf("graph")])
                ELSE {[lines |-> joined, circles |-> appended,
                       calls |-> <<>>, st |-> svc2[ImportOf("graph")]]} :
       LET svc3 == SvcWith(svc2, "graph", e.st) IN
       \E r2 \in RenderLegend(b.allTags, svc3[ImportOf("legend")]) :
         /\ view' = "graph"
         /\ nodes' = b.nodes
         /\ links' = b.links
         /\ closure' = Some([sourceToRequirements |-> b.sourceToRequirements,
                             sourceColorMap |-> b.sourceColorMap,
                             sourceCenters |-> b.sourceCenters,
                             targets |->
                               [i \in 1..Len(b.nodes) |->
                                  ForceTarget(b.nodes[i], b.sourceCenters)]])
         /\ lines' = e.lines
         /\ circles' = e.circles
         /\ hovered' = None
         /\ pos' = [i \in 1..Len(b.nodes) |-> InitialPoint(i - 1)]
         /\ pin' = [i \in 1..Len(b.nodes) |-> None]
         /\ mains' = [i \in 1..Len(b.nodes) |-> MainCircle(b.nodes[i])]
         /\ transform' = [i \in 1..Len(b.nodes) |-> None]
         /\ ends' = [k \in 1..Len(b.links) |-> None]
         /\ allTags' = b.allTags
         /\ legend' = r2.legend
         /\ lastCalls' = r1.calls
                         \o [i \in 1..Len(b.calls) |->
                               Call("graph", b.calls[i].name, b.calls[i].color)]
                         \o e.calls
                         \o r2.calls
         /\ colorSvc' = SvcWith(svc3, "legend", r2.st)
         /\ sims' = Append(RunCleanup(sims, cleanup), NewSimulation)
         /\ cleanup' = Some(Len(sims) + 1)
         /\ UNCHANGED crashed

\* whether a commit with the prop reqs creates a simulation
Builds(reqs) == ~RendersEmptyState(reqs) /\ ~EffectReturnsEarly(reqs)

\* the component is mounted with the prop reqs
Mount(reqs) ==
  /\ ~mounted
  /\ ~crashed
  /\ Builds(reqs) => Len(sims) < MaxBuilds
  /\ mounted' = TRUE
  /\ requirements' = reqs
  /\ Commit(reqs, TRUE)
  /\ seen' = Record(lastCalls')
  /\ event' = None
  /\ UNCHANGED <<selectedTag, gestures, chip>>

\* the parent passes a new list (a new array, possibly of the same content):
\* the [requirements] dependency of the build effect changes
SetRequirements(reqs) ==
  /\ mounted
  /\ ~crashed
  /\ Builds(reqs) => Len(sims) < MaxBuilds
  /\ requirements' = reqs
  /\ Commit(reqs, FALSE)
  /\ seen' = Record(lastCalls')
  /\ event' = None
  /\ UNCHANGED <<mounted, selectedTag, gestures, chip>>

\* the parent renders again with the same prop: no effect runs
Rerender ==
  /\ mounted
  /\ ~crashed
  /\ RenderOnly(requirements)
  /\ seen' = Record(lastCalls')
  /\ event' = None
  /\ UNCHANGED <<requirements, mounted, selectedTag, gestures, chip>>

\* the component unmounts: React runs the pending cleanup and removes the
\* svg; its state is discarded
Unmount ==
  /\ mounted
  /\ ~crashed
  /\ mounted' = FALSE
  /\ view' = "none"
  /\ NoSvg
  /\ allTags' = <<>>
  /\ legend' = <<>>
  /\ selectedTag' = None
  /\ lastCalls' = <<>>
  /\ sims' = RunCleanup(sims, cleanup)
  /\ cleanup' = None
  /\ event' = None
  /\ UNCHANGED <<colorSvc, seen, requirements, gestures, chip, crashed>>

-----------------------------------------------------------------------------
(* Interaction: click, hover and drag.                                     *)

\* a click that selects the node whatever was selected
SelectAlways(prev, id) == Some(id)

\* prev => (prev === d.id ? null : d.id)
Toggle(prev, id) == IF prev = Some(id) THEN None ELSE Some(id)

\* node.on('click') on a tag node: selectedTag toggles, the component
\* renders again and the selection effect runs
ClickNode(i) ==
  /\ mounted
  /\ ~crashed
  /\ view = "graph"
  /\ i \in 1..Len(nodes)
  /\ nodes[i].type = "tag"
  /\ LET sel == Toggle(selectedTag, nodes[i].id)
     IN \E r \in RenderLegend(allTags, colorSvc[ImportOf("legend")]) :
        LET svc1 == SvcWith(colorSvc, "legend", r.st) IN
        \E e \in SelectionEffect(ImportOf("graph"), links, nodes, lines,
                                 circles, sel, svc1[ImportOf("graph")]) :
          /\ selectedTag' = sel
          /\ legend' = r.legend
          /\ lines' = e.lines
          /\ circles' = e.circles
          /\ lastCalls' = r.calls \o e.calls
          /\ colorSvc' = SvcWith(svc1, "graph", e.st)
  /\ seen' = Record(lastCalls')
  /\ event' = Some([type |-> "click", node |-> i])
  /\ UNCHANGED <<requirements, mounted, view, nodes, links, closure,
                 mains, hovered, pos, pin, transform, ends,
                 allTags, sims, cleanup, gestures, chip,
                 crashed>>

\* a click handler without the test of d.type: a requirement node is
\* selected as a tag node is
ClickRequirementSelects(i) ==
  /\ mounted
  /\ ~crashed
  /\ view = "graph"
  /\ i \in 1..Len(nodes)
  /\ nodes[i].type = "requirement"
  /\ LET sel == Toggle(selectedTag, nodes[i].id)
     IN \E r \in RenderLegend(allTags, colorSvc[ImportOf("legend")]) :
        LET svc1 == SvcWith(colorSvc, "legend", r.st) IN
        \E e \in SelectionEffect(ImportOf("graph"), links, nodes, lines,
                                 circles, sel, svc1[ImportOf("graph")]) :
          /\ selectedTag' = sel
          /\ legend' = r.legend
          /\ lines' = e.lines
          /\ circles' = e.circles
          /\ lastCalls' = r.calls \o e.calls
          /\ colorSvc' = SvcWith(svc1, "graph", e.st)
  /\ seen' = Record(lastCalls')
  /\ event' = Some([type |-> "click", node |-> i])
  /\ UNCHANGED <<requirements, mounted, view, nodes, links, closure,
                 mains, hovered, pos, pin, transform, ends,
                 allTags, sims, cleanup, gestures, chip,
                 crashed>>

\* node.on('click') on a requirement node: the handler does nothing
ClickRequirement(i) ==
  /\ mounted
  /\ ~crashed
  /\ view = "graph"
  /\ i \in 1..Len(nodes)
  /\ nodes[i].type = "requirement"
  /\ event' = Some([type |-> "click", node |-> i])
  /\ UNCHANGED program

\* link.on('mouseover'): the pointer enters the line of link k
LinkMouseOver(k) ==
  /\ mounted
  /\ ~crashed
  /\ view = "graph"
  /\ k \in 1..Len(links)
  /\ hovered = None
  /\ hovered' = Some(k)
  /\ IF links[k].type = "same-source"
     THEN /\ lines' =
               [j \in 1..Len(links) |->
                  [lines[j] EXCEPT !.opacity =
                     IF /\ links[j].type = "same-source"
                        /\ links[j].sourceDocument = links[k].sourceDocument
                     THEN 90
                     ELSE IF links[j].type = "has-tag" THEN 15 ELSE 8]]
          /\ circles' = highlightSource(nodes, closure[1],
                                        links[k].sourceDocument[1])
     ELSE UNCHANGED <<lines, circles>>
  /\ event' = Some([type |-> "mouseover", link |-> k, lines |-> lines,
                    circles |-> circles])
  /\ UNCHANGED <<colorSvc, lastCalls, seen, requirements, mounted, view,
                 nodes, links, closure, mains, pos, pin, transform,
                 ends, allTags, legend,
                 selectedTag, sims, cleanup, gestures, chip, crashed>>

\* link.on('mouseout'): the pointer leaves the line it was over
LinkMouseOut ==
  /\ hovered # None
  /\ hovered' = None
  /\ lines' = [j \in 1..Len(links) |->
                 [lines[j] EXCEPT !.opacity =
                    IF links[j].type = "has-tag" THEN 60 ELSE 45]]
  /\ circles' = resetHighlight(nodes)
  /\ event' = Some([type |-> "mouseout"])
  /\ UNCHANGED <<colorSvc, lastCalls, seen, requirements, mounted, view,
                 nodes, links, closure, mains, pos, pin, transform,
                 ends, allTags, legend,
                 selectedTag, sims, cleanup, gestures, chip, crashed>>

\* an event.active that is always 0
ActiveGesturesIgnored(sim, pointer) == 0

\* event.active of d3-drag: the other gestures of the same drag behaviour,
\* one behaviour per build
ActiveGestures(sim, pointer) ==
  Cardinality({g \in gestures : g.sim = sim /\ g.pointer # pointer})

\* dragstarted: if (!event.active) sim.alphaTarget(0.3).restart();
\* d.fx = d.x; d.fy = d.y.  alphaTarget is kept in tenths.
DragStart(pointer, i) ==
  /\ mounted
  /\ ~crashed
  /\ view = "graph"
  /\ cleanup # None
  /\ i \in 1..Len(nodes)
  /\ \A g \in gestures : g.pointer # pointer
  /\ LET sim == cleanup[1]
     IN /\ sims' = IF ActiveGestures(sim, pointer) = 0
                   THEN [sims EXCEPT ![sim].alphaTarget = 3,
                                     ![sim].running = TRUE]
                   ELSE sims
        /\ gestures' = gestures \cup
                         {[pointer |-> pointer, sim |-> sim, node |-> i]}
  /\ pin' = [pin EXCEPT ![i] = Some(pos[i])]
  /\ event' = None
  /\ UNCHANGED <<colorSvc, lastCalls, seen, requirements, mounted,
                 view, nodes, links, closure, lines, circles, mains, hovered, pos,
                 transform, ends,
                 allTags, legend, selectedTag, cleanup, chip, crashed>>

\* whether the node of a gesture is still bound to the svg: the gesture
\* began on the elements of the build that is current
Current(g) == cleanup = Some(g.sim)

\* dragged: d.fx = event.x; d.fy = event.y
Dragged(g, pt) ==
  /\ g \in gestures
  /\ pin' = IF Current(g) THEN [pin EXCEPT ![g.node] = Some(pt)] ELSE pin
  /\ event' = None
  /\ UNCHANGED <<colorSvc, lastCalls, seen, requirements, mounted,
                 view, nodes, links, closure, lines, circles, mains, hovered, pos,
                 transform, ends,
                 allTags, legend, selectedTag, sims, cleanup, gestures, chip,
                 crashed>>

\* a dragended that restarts the timer as dragstarted does
DragEndRestarts(g) ==
  /\ g \in gestures
  /\ gestures' = gestures \ {g}
  /\ sims' = IF ActiveGestures(g.sim, g.pointer) = 0
             THEN [sims EXCEPT ![g.sim].alphaTarget = 0,
                               ![g.sim].running = TRUE]
             ELSE sims
  /\ pin' = IF Current(g) THEN [pin EXCEPT ![g.node] = None] ELSE pin
  /\ event' = None
  /\ UNCHANGED <<colorSvc, lastCalls, seen, requirements, mounted,
                 view, nodes, links, closure, lines, circles, mains, hovered, pos,
                 transform, ends,
                 allTags, legend, selectedTag, cleanup, chip, crashed>>

\* dragended: if (!event.active) sim.alphaTarget(0); d.fx = null;
\* d.fy = null.  The listeners of a gesture outlive the elements it began
\* on, so it can end after a rebuild or an unmount.
DragEnd(g) ==
  /\ g \in gestures
  /\ gestures' = gestures \ {g}
  /\ sims' = IF ActiveGestures(g.sim, g.pointer) = 0
             THEN [sims EXCEPT ![g.sim].alphaTarget = 0]
             ELSE sims
  /\ pin' = IF Current(g) THEN [pin EXCEPT ![g.node] = None] ELSE pin
  /\ event' = None
  /\ UNCHANGED <<colorSvc, lastCalls, seen, requirements, mounted,
                 view, nodes, links, closure, lines, circles, mains, hovered, pos,
                 transform, ends,
                 allTags, legend, selectedTag, cleanup, chip, crashed>>

\* forceLink(links).id(d => d.id): the node a link end is resolved to, the
\* last node of that id in the Map built from the nodes
NodeById(ns, id) ==
  CHOOSE i \in 1..Len(ns) :
    ns[i].id = id /\ \A j \in (i + 1)..Len(ns) : ns[j].id # id

\* a tick listener that takes x2, y2 from d.source
TickListenerBothEndsAtSource(ns, ls, ps) ==
  [transform |-> [i \in 1..Len(ns) |-> Some(ps[i])],
   ends |-> [k \in 1..Len(ls) |->
               Some(<<ps[NodeById(ns, ls[k].source)],
                      ps[NodeById(ns, ls[k].source)]>>)]]

\* simulation.on('tick', ...): x1, y1, x2, y2 of every line from d.source
\* and d.target, translate(d.x, d.y) of every node group; ps are the
\* positions of the nodes
TickListener(ns, ls, ps) ==
  [transform |-> [i \in 1..Len(ns) |-> Some(ps[i])],
   ends |-> [k \in 1..Len(ls) |->
               Some(<<ps[NodeById(ns, ls[k].source)],
                      ps[NodeById(ns, ls[k].target)]>>)]]

\* One step of the timer of simulation s.  simulation.tick(): a node with
\* fx, fy is put there and every other node where the forces take it, which
\* is any of the places `to`; then the tick listener sets the line ends and
\* the transforms; then, if alpha fell below alphaMin, which it can only
\* with alphaTarget 0, the timer stops.  The nodes and elements of a
\* simulation that is not the current one are not in the document.
Tick(s, to, cools) ==
  /\ s \in 1..Len(sims)
  /\ sims[s].running
  /\ cools => sims[s].alphaTarget = 0
  /\ sims' = IF cools THEN [sims EXCEPT ![s].running = FALSE] ELSE sims
  /\ IF cleanup = Some(s)
     THEN /\ pos' = [i \in 1..Len(nodes) |->
                       IF pin[i] # None THEN pin[i][1] ELSE to[i]]
          /\ transform' = TickListener(nodes, links, pos').transform
          /\ ends' = TickListener(nodes, links, pos').ends
     ELSE UNCHANGED <<pos, transform, ends>>
  /\ event' = Some([type |-> "tick", sim |-> s])
  /\ UNCHANGED <<colorSvc, lastCalls, seen, requirements, mounted, view,
                 nodes, links, closure, lines, circles, mains, hovered, pin,
                 allTags, legend, selectedTag, cleanup, gestures, chip,
                 crashed>>

-----------------------------------------------------------------------------
(* The other call site of the colour service: the Tag chip.                 *)

\* Tag({ name, type }): let bgColor = getTagColor(name); a chip of type
\* 'status' then shows the colour of the status instead
TagChipRender(name, type) ==
  \E o \in getTagColor(ImportOf("chip"), name, colorSvc[ImportOf("chip")]) :
    /\ colorSvc' = SvcWith(colorSvc, "chip", o.st)
    /\ lastCalls' = <<Call("chip", name, o.color)>>
    /\ seen' = Record(lastCalls')
    /\ chip' = Some([name |-> name, type |-> type,
                     backgroundColor |->
                       IF type = "status"
                       THEN IF name = S_Draft THEN "#d1d5db" ELSE "#fed7aa"
                       ELSE o.color])
    /\ event' = None
    /\ UNCHANGED <<requirements, mounted, view, dom, allTags, legend,
                   selectedTag, sims, cleanup, gestures, crashed>>

-----------------------------------------------------------------------------
(* Specifications.                                                         *)

\* where the pointer of a drag can be
Points == {<<0, 0>>, <<0, 1>>}

\* the life cycle of the graph and of its simulations
Next ==
  \/ \E reqs \in LifeLists : Mount(reqs)
  \/ \E reqs \in LifeLists : SetRequirements(reqs)
  \/ Rerender
  \/ Unmount
  \/ \E i \in 1..Len(nodes) : ClickNode(i)
  \/ \E i \in 1..Len(nodes) : ClickRequirement(i)
  \/ \E k \in 1..Len(links) : LinkMouseOver(k)
  \/ LinkMouseOut
  \/ \E p \in Pointers : \E i \in 1..Len(nodes) : DragStart(p, i)
  \/ \E g \in gestures : \E pt \in Points : Dragged(g, pt)
  \/ \E g \in gestures : DragEnd(g)

Spec == Init /\ [][Next]_vars

\* the graph and the Tag chips, which ask the same colour service
NextShare ==
  \/ \E reqs \in ReqLists : Mount(reqs)
  \/ \E reqs \in ReqLists : SetRequirements(reqs)
  \/ Rerender
  \/ Unmount
  \/ \E i \in 1..Len(nodes) : ClickNode(i)
  \/ \E c \in ChipProps : TagChipRender(c.name, c.type)

SpecShare == Init /\ [][NextShare]_vars

\* one build of any list within the bounds
InitBuild ==
  /\ InitRest
  /\ \/ requirements = None
     \/ \E k \in 0..MaxEntities : \E p \in IdPatterns(k) :
          \E a \in [1..k -> Attrs] : requirements = Some(ListOf(k, p, a))

BuildOnce == sims = <<>> /\ Mount(requirements)

NextBuild == BuildOnce

SpecBuild == InitBuild /\ [][NextBuild]_vars

\* selection and hover on a graph with two tags
NextSelect ==
  \/ \E reqs \in SelectLists : Mount(reqs)
  \/ \E reqs \in SelectLists : SetRequirements(reqs)
  \/ Rerender
  \/ Unmount
  \/ \E i \in 1..Len(nodes) : ClickNode(i)
  \/ \E i \in 1..Len(nodes) : ClickRequirement(i)
  \/ \E k \in 1..Len(links) : LinkMouseOver(k)
  \/ LinkMouseOut

SpecSelect == Init /\ [][NextSelect]_vars

\* drags, clicks and the ticks of the simulations
NextDrag ==
  \/ \E reqs \in DragLists : Mount(reqs)
  \/ \E reqs \in DragLists : SetRequirements(reqs)
  \/ Unmount
  \/ \E i \in 1..Len(nodes) : ClickNode(i)
  \/ \E i \in 1..Len(nodes) : ClickRequirement(i)
  \/ \E p \in Pointers : \E i \in 1..Len(nodes) : DragStart(p, i)
  \/ \E g \in gestures : \E pt \in Points : Dragged(g, pt)
  \/ \E g \in gestures : DragEnd(g)
  \/ \E s \in 1..Len(sims) : \E to \in [1..Len(nodes) -> Points] :
       \E cools \in BOOLEAN : Tick(s, to, cools)

SpecDrag == Init /\ [][NextDrag]_vars

\* the colour service under any sequence of calls from its call sites
NextColor ==
  \E n \in ColorNames : TagChipRender(n, "default")

SpecColor == Init /\ [][NextColor]_vars

-----------------------------------------------------------------------------
(* Properties of the graph that one build produces (SpecBuild).            *)

\* the entities of the list given to the component
Entities == IF requirements = None THEN <<>> ELSE requirements[1]

\* the tags of an entity, none when the list is absent
TagList(e) == IF e.tags = None THEN <<>> ELSE e.tags[1]

\* the tag names that occur in any entity's tags, compared as they are
DistinctTagNames ==
  UNION {{TagList(Entities[i])[k] : k \in 1..Len(TagList(Entities[i]))} :
           i \in 1..Len(Entities)}

\* the source document an entity is grouped under
GroupOf(e) ==
  IF e.source_document_filename = None
  THEN UnknownSource ELSE e.source_document_filename[1]

\* the links of one type, by index
LinksOfType(t) == {k \in 1..Len(links) : links[k].type = t}

\* f[1] + ... + f[n]
RECURSIVE SumTo(_, _)
SumTo(f, n) == IF n = 0 THEN 0 ELSE f[n] + SumTo(f, n - 1)

\* C1: for every non-empty entity list the build produces exactly
\* |entities| + |distinctTagNames| nodes, where distinctTagNames is the set
\* of tag names in any entity's tags, compared case-sensitively.
C1_NodeCount ==
  (mounted /\ Len(Entities) > 0) =>
    Len(nodes) = Len(Entities) + Cardinality(DistinctTagNames)

\* three entities, two of them with the same tags, and two tag names that
\* differ only in case: six nodes
C1_Witness ==
  /\ mounted
  /\ Len(Entities) = 3
  /\ {S_UI, S_ui} \subseteq DistinctTagNames
  /\ \E i, j \in 1..3 :
       /\ i # j
       /\ TagList(Entities[i]) # <<>>
       /\ TagList(Entities[i]) = TagList(Entities[j])
  /\ Len(nodes) = 6

\* C2: for every entity list the number of has-tag edges is the sum over
\* the entities of the length of their tags list; an entity whose tags are
\* absent or empty adds no has-tag edge and is still a node, and the build
\* does not fail.  The has-tag edges at an entity's node id are those of
\* the entities that carry the id.
C2_HasTagCount ==
  mounted =>
    /\ ~crashed
    /\ Cardinality(LinksOfType("has-tag")) =
         SumTo([i \in 1..Len(Entities) |-> Len(TagList(Entities[i]))],
               Len(Entities))
    /\ \A i \in 1..Len(Entities) :
         /\ i <= Len(nodes)
         /\ nodes[i].type = "requirement"
         /\ nodes[i].label = Entities[i].req_id
         /\ Cardinality({k \in LinksOfType("has-tag") :
                           links[k].source = nodes[i].id}) =
              SumTo([j \in 1..Len(Entities) |->
                       IF Entities[j].req_id = Entities[i].req_id
                       THEN Len(TagList(Entities[j])) ELSE 0],
                    Len(Entities))

\* an entity without a tags list, one with an empty list and one with three
\* tags, one of them twice: three has-tag edges and all three entity nodes
C2_Witness ==
  /\ mounted
  /\ Len(Entities) = 3
  /\ \E i, j, k \in 1..3 :
       /\ Entities[i].tags = None
       /\ Entities[j].tags = Some(<<>>)
       /\ Len(TagList(Entities[k])) = 3
  /\ Cardinality(LinksOfType("has-tag")) = 3
  /\ \A i \in 1..3 : nodes[i].type = "requirement"

\* C3: for every entity list the number of same-source edges is the sum
\* over the source-document groups of k*(k-1)/2, k the size of the group
\* (each entity counts the earlier entities of its group), and no unordered
\* pair of entity node ids is joined by more than one same-source edge.
C3_SameSourcePairs ==
  mounted =>
    /\ Cardinality(LinksOfType("same-source")) =
         SumTo([i \in 1..Len(Entities) |->
                  Cardinality({j \in 1..(i - 1) :
                                 GroupOf(Entities[j]) = GroupOf(Entities[i])})],
               Len(Entities))
    /\ \A k1, k2 \in LinksOfType("same-source") :
         k1 # k2 =>
           {links[k1].source, links[k1].target} #
             {links[k2].source, links[k2].target}

\* C4: in the model a build produces for any entity list, node ids are
\* globally unique: no two nodes, entity or tag, carry the same id.
C4_UniqueNodeIds ==
  mounted =>
    \A i, j \in 1..Len(nodes) : i # j => nodes[i].id # nodes[j].id

\* C5: in the model a build produces for any entity list, every edge
\* endpoint is the id of a node; a has-tag edge goes from an entity node to
\* a tag node and a same-source edge joins two entity nodes.
C5_EdgeEndpoints ==
  mounted =>
    \A k \in 1..Len(links) :
      LET l == links[k]
          IsA(id, t) == \E i \in 1..Len(nodes) :
                          nodes[i].id = id /\ nodes[i].type = t
      IN /\ l.type \in {"has-tag", "same-source"}
         /\ l.type = "has-tag" =>
              IsA(l.source, "requirement") /\ IsA(l.target, "tag")
         /\ l.type = "same-source" =>
              IsA(l.source, "requirement") /\ IsA(l.target, "requirement")

\* a graph with edges of both types
C5_Witness ==
  /\ mounted
  /\ LinksOfType("has-tag") # {}
  /\ LinksOfType("same-source") # {}

\* the entities without a source document, by index
Unsourced ==
  {i \in 1..Len(Entities) : Entities[i].source_document_filename = None}

\* C12: every entity without a source document is a node of the source
\* document "unknown-source", and these entities form one group: every two
\* of them are joined by a same-source edge of that document, and the one
\* anchor kept under "unknown-source" is the anchor of each of them.
C12_UnknownSourceGroup ==
  (mounted /\ Unsourced # {}) =>
    /\ ~crashed
    /\ \A i \in Unsourced :
         /\ nodes[i].type = "requirement"
         /\ nodes[i].label = Entities[i].req_id
         /\ nodes[i].sourceDocument = Some(UnknownSource)
    /\ \A i, j \in Unsourced :
         i < j =>
           \E k \in LinksOfType("same-source") :
             /\ links[k].sourceDocument = Some(UnknownSource)
             /\ {links[k].source, links[k].target} =
                  {nodes[i].id, nodes[j].id}
    /\ closure # None
    /\ Cardinality({c \in 1..Len(closure[1].sourceCenters) :
                      closure[1].sourceCenters[c].key = UnknownSource}) = 1

\* three entities with different ids, two of them without a source document
\* and one with a document: one edge between the two, two anchors
C12_Witness ==
  /\ mounted
  /\ Len(Entities) = 3
  /\ Cardinality(Unsourced) = 2
  /\ Cardinality({Entities[i].req_id : i \in 1..3}) = 3
  /\ Cardinality(LinksOfType("same-source")) = 1
  /\ \A k \in LinksOfType("same-source") :
       links[k].sourceDocument = Some(UnknownSource)
  /\ Len(closure[1].sourceCenters) = 2

\* the tag nodes, by index
TagNodes == {i \in 1..Len(nodes) : nodes[i].type = "tag"}

\* C13: the build makes exactly one tag node for each distinct tag name,
\* names compared as they are written: every name that occurs in the list
\* labels one tag node and no more, however many entities use it, and
\* every tag node is labelled with a name of the list.
C13_OneTagNodePerName ==
  mounted =>
    /\ \A n \in DistinctTagNames :
         Cardinality({i \in TagNodes : nodes[i].label = n}) = 1
    /\ \A i \in TagNodes :
         /\ nodes[i].label \in DistinctTagNames
         /\ nodes[i].id = TagPrefix \o nodes[i].label

\* UI on two entities and ui on a third, which also carries A twice: the
\* tag nodes UI, ui and A
C13_Witness ==
  /\ mounted
  /\ Len(Entities) = 3
  /\ Cardinality({i \in 1..3 :
                    \E k \in 1..Len(TagList(Entities[i])) :
                      TagList(Entities[i])[k] = S_UI}) = 2
  /\ DistinctTagNames = {S_UI, S_ui, S_A}
  /\ {nodes[i].label : i \in TagNodes} = {S_UI, S_ui, S_A}
  /\ Cardinality(TagNodes) = 3

-----------------------------------------------------------------------------
(* Properties of the colour service (SpecColor, SpecShare).                *)

\* two characters that are the same letter
SameLetter(c, d) ==
  c = d \/ \E i \in 1..Len(UpperChars) : {c, d} = {UpperChars[i], LowerChars[i]}

\* two names that differ at most in the case of their letters
DifferOnlyInCase(n, m) ==
  Len(n) = Len(m) /\ \A i \in 1..Len(n) : SameLetter(n[i], m[i])

\* C6: colorFor is case-insensitive and stable: whatever calls come in
\* between, every call for a name returns the same colour, and so do the
\* calls for two names that differ only in letter case, also after the
\* palette was exhausted and the used-set cleared.
C6_CaseInsensitiveStable ==
  \A a, b \in seen : DifferOnlyInCase(a.name, b.name) => a.color = b.color

\* more names were given a palette colour than the palette has colours, and
\* a name of them was asked in both cases
C6_Witness ==
  /\ Cardinality(DOMAIN colorSvc[TagColorsModule].cache) > PaletteSize
  /\ \E a, b \in seen : a.name = S_A /\ b.name = S_a
  /\ \E a, b \in seen : a.name = S_Security /\ b.name = S_security

\* C7: every consumer of the colour service (the tag nodes of the graph,
\* the legend, the Tag chip) obtains the same colour for the same name,
\* under any interleaving of their calls, and the tag node, the legend
\* entry and the chip of a tag show it: one cache and one used-set are
\* behind every call site, and the second definition in lib/api-service.js
\* serves none.
C7_SharedColors ==
  /\ \A a, b \in seen : a.name = b.name => a.color = b.color
  /\ \A i \in 1..Len(nodes) : \A a \in seen :
       (nodes[i].type = "tag" /\ a.name = nodes[i].label) =>
         a.color = nodes[i].color[1]
  /\ \A i \in 1..Len(legend) : \A a \in seen :
       a.name = legend[i].name => a.color = legend[i].color
  /\ \A a \in seen :
       (chip # None /\ chip[1].type # "status" /\ a.name = chip[1].name) =>
         a.color = chip[1].backgroundColor
  /\ colorSvc[ApiServiceModule] = [cache |-> EmptyCache, used |-> {}]

\* the three consumers have asked for one name that matches no rule, and
\* its tag node, legend entry and chip are shown
C7_Witness ==
  /\ \A c \in Consumers : \E a \in seen : a.consumer = c /\ a.name = S_A
  /\ chip # None /\ chip[1].type = "default" /\ chip[1].name = S_A
  /\ \E i \in 1..Len(nodes) : nodes[i].type = "tag" /\ nodes[i].label = S_A
  /\ \E i \in 1..Len(legend) : legend[i].name = S_A

-----------------------------------------------------------------------------
(* Properties of the life cycle (Spec).                                    *)

\* the list is empty or missing
EmptyOrMissing(reqs) == reqs = None \/ reqs = Some(<<>>)

\* C8: when the entity list is empty or missing the component produces no
\* nodes and no edges, creates no simulation and renders the empty state
\* instead of the graph; it never fails.
C8_EmptyState ==
  [][ /\ ~crashed'
      /\ (mounted' /\ EmptyOrMissing(requirements')) =>
           /\ nodes' = <<>>
           /\ links' = <<>>
           /\ view' = "empty"
           /\ Len(sims') = Len(sims) ]_vars

\* the list went missing after a graph had been shown
C8_Witness ==
  /\ mounted
  /\ requirements = None
  /\ view = "empty"
  /\ Len(sims) >= 1

\* C9: stop is invoked exactly once on every simulation a build created:
\* never twice, and once the view is torn down, after any rebuilds, clicks,
\* hovers and drags, not zero times either.
C9_StopExactlyOnce ==
  /\ \A i \in 1..Len(sims) : sims[i].stops <= 1
  /\ ~mounted => \A i \in 1..Len(sims) : sims[i].stops = 1

\* the view is torn down after a rebuild, with a drag still in progress
C9_Witness ==
  /\ ~mounted
  /\ Len(sims) >= 2
  /\ gestures # {}
  /\ \A i \in 1..Len(sims) : sims[i].stops = 1

\* C10: a rebuild stops the previous simulation before it creates the new
\* one: in every reachable state at most one simulation is running.
C10_OneSimulationRunning ==
  Cardinality({i \in 1..Len(sims) : sims[i].running}) <= 1

\* after a rebuild the new simulation runs and the previous one, on whose
\* elements a drag began, is stopped
C10_Witness ==
  /\ mounted
  /\ Len(sims) >= 2
  /\ sims[Len(sims)].running
  /\ ~sims[1].running
  /\ \E g \in gestures : g.sim = 1


-----------------------------------------------------------------------------
(* Hover and selection.                                                    *)

\* whether the last step handled an event of the given type
Handled(e, type) == e # None /\ e[1].type = type

\* what a circle shows: an opacity that was never set shows as 1
Shown(c) ==
  [c EXCEPT !.opacity = IF c.opacity = None THEN Some(100) ELSE c.opacity]

\* C11: the mouseout that follows the mouseover of a same-source edge
\* leaves every line and every node circle showing what it showed when
\* the mouseover began, whether or not a tag is selected
C11_HoverLeaveRestores ==
  [][ ( /\ Handled(event, "mouseover")
        /\ links[event[1].link].type = "same-source"
        /\ Handled(event', "mouseout") )
      => /\ lines' = event[1].lines
         /\ \A i \in 1..Len(nodes) :
              Shown(circles'[i]) = Shown(event[1].circles[i]) ]_vars


-----------------------------------------------------------------------------
(* Properties of the legend and of the colour requests of a build.         *)

\* the legend entries of a name, by index
LegendEntries(n) == {e \in 1..Len(legend) : legend[e].name = n}

\* C14: while the graph of a list is shown, the legend has exactly one
\* entry for each distinct tag name of the list and no other entry, and
\* the colour of an entry is the colour of the tag node of its name.
C14_LegendMatchesTagNodes ==
  (mounted /\ view = "graph") =>
    /\ \A n \in DistinctTagNames : Cardinality(LegendEntries(n)) = 1
    /\ \A e \in 1..Len(legend) :
         /\ legend[e].name \in DistinctTagNames
         /\ \E i \in TagNodes : nodes[i].label = legend[e].name
         /\ \A i \in TagNodes :
              nodes[i].label = legend[e].name =>
                nodes[i].color = Some(legend[e].color)

\* the graph of the list with the tag A, built after another list had been
\* shown and a chip had asked for a colour: the legend is the one entry A,
\* in a colour of the palette
C14_Witness ==
  /\ mounted
  /\ view = "graph"
  /\ Len(sims) = 2
  /\ chip # None
  /\ DistinctTagNames = {S_A}
  /\ Len(legend) = 1
  /\ legend[1].name = S_A
  /\ legend[1].color \in PaletteSet(ImportOf("legend"))


\* the colours the graph was given for a name in the last step
GraphColors(name) ==
  {lastCalls[c].color :
     c \in {d \in 1..Len(lastCalls) :
              lastCalls[d].consumer = "graph" /\ lastCalls[d].name = name}}

\* C15: the build of a non-empty list asks getTagColor for each distinct
\* tag name, under the name itself, and for each distinct source document
\* d, under "source:" followed by d; the answers are the colour of the tag
\* node and the colour kept for the document.
C15_BuildRequestsColors ==
  (mounted /\ Len(Entities) > 0) =>
    /\ \A i \in TagNodes :
         GraphColors(nodes[i].label) = {nodes[i].color[1]}
    /\ \A n \in DistinctTagNames : GraphColors(n) # {}
    /\ \A i \in 1..Len(Entities) :
         LET d == GroupOf(Entities[i])
         IN /\ MapHas(closure[1].sourceColorMap, d)
            /\ GraphColors(SourcePrefix \o d) =
                 {MapGet(closure[1].sourceColorMap, d)}

\* a list with the tags UI and A, a document and an entity without one:
\* calls for "UI", "A", "source:doc1" and "source:unknown-source"
C15_Witness ==
  /\ mounted
  /\ {S_UI, S_A} \subseteq DistinctTagNames
  /\ {GroupOf(Entities[i]) : i \in 1..Len(Entities)} =
       {S_doc1, UnknownSource}
  /\ \A n \in {S_UI, S_A, SourcePrefix \o S_doc1,
                SourcePrefix \o UnknownSource} : GraphColors(n) # {}


-----------------------------------------------------------------------------
(* Properties of the rules and of the palette (SpecColor).                 *)

\* whether the name contains the word, letters compared without their case
ContainsIgnoringCase(n, w) ==
  \E off \in 0..(Len(n) - Len(w)) :
    \A k \in 1..Len(w) : SameLetter(n[off + k], w[k])

\* the rules a name matches, by their place in the list of rules
RulesMatching(n) ==
  {i \in 1..Len(RuleMatches) : ContainsIgnoringCase(n, RuleMatches[i])}

\* the same for each name of the colour specification
RulesOfName == [n \in ColorNames |-> RulesMatching(n)]

\* C16: a call for a name that contains the word of a rule, in any case of
\* its letters, returns the colour of the earliest such rule in the list
\* of rules and leaves the cache and the used-set as they were.
C16_FirstRuleWins ==
  [][ \A c \in 1..Len(lastCalls') :
        LET hits == RulesOfName[lastCalls'[c].name]
            m == ImportOf(lastCalls'[c].consumer)
        IN hits # {} =>
             /\ lastCalls'[c].color =
                  predefinedColors(m)[CHOOSE i \in hits :
                                        \A j \in hits : i <= j].color
             /\ colorSvc' = colorSvc ]_vars

\* "UI Security" was asked after the palette had given a colour: it
\* matches security, the fourth rule, and ui, the sixth, and got the
\* colour of the fourth
C16_Witness ==
  /\ chip # None
  /\ chip[1].name = S_UISecurity
  /\ RulesOfName[S_UISecurity] = {4, 6}
  /\ chip[1].backgroundColor = TagColorsRuleColors[4]
  /\ colorSvc[TagColorsModule].used # {}


\* whether a call for the name finds neither a rule nor a cached colour
CacheMiss(n, st) ==
  /\ RulesOfName[n] = {}
  /\ \A k \in DOMAIN st.cache : ~DifferOnlyInCase(k, n)

\* C17: a call that finds neither a rule nor a cached colour returns a
\* colour of the palette.  While the palette has a colour that is not in
\* the used-set, the colour returned is not in the used-set and joins it;
\* when every colour is used, the used-set becomes the colour returned
\* alone.
C17_PaletteDraw ==
  [][ (Len(lastCalls') = 1 /\
       CacheMiss(lastCalls'[1].name,
                 colorSvc[ImportOf(lastCalls'[1].consumer)]))
      => LET m == ImportOf(lastCalls'[1].consumer)
             color == lastCalls'[1].color
             used == colorSvc[m].used
         IN /\ color \in PaletteSet(m)
            /\ IF PaletteSet(m) \ used # {}
               THEN /\ color \notin used
                    /\ colorSvc'[m].used = used \cup {color}
               ELSE colorSvc'[m].used = {color} ]_vars

\* one more name than the palette has colours got a colour: the used-set
\* was cleared and holds the colour of the last of them alone
C17_Witness ==
  /\ Cardinality(DOMAIN colorSvc[TagColorsModule].cache) = PaletteSize + 1
  /\ Cardinality(colorSvc[TagColorsModule].used) = 1
  /\ lastCalls # <<>>
  /\ colorSvc[TagColorsModule].used = {lastCalls[1].color}
  /\ {colorSvc[TagColorsModule].cache[k] :
        k \in DOMAIN colorSvc[TagColorsModule].cache} =
       PaletteSet(TagColorsModule)


-----------------------------------------------------------------------------
(* Properties of the selection (SpecSelect, Spec).                         *)

\* a step of the mounted component that builds the graph again
Rebuilds == mounted /\ mounted' /\ Len(sims') > Len(sims)

\* C18: a rebuild resets the emphasis: after it no tag is selected, no
\* link is hovered, and every line and every highlight circle shows its
\* default style.
C18_RebuildResetsEmphasis ==
  [][ Rebuilds =>
        /\ selectedTag' = None
        /\ hovered' = None
        /\ \A k \in 1..Len(links') : lines'[k].width = 2
        /\ \A i \in 1..Len(nodes') : circles'[i] = HighlightCircle ]_vars


\* C19: a click on a tag node selects it when no tag or another tag is
\* selected and clears the selection when it is the selected tag; a click
\* on another node leaves the selection as it is; at most one tag is
\* selected, a tag node of the graph the click was made on.
C19_ClickToggles ==
  [][ Handled(event', "click") =>
        LET d == nodes[event'[1].node]
        IN /\ d.type = "tag" /\ selectedTag = None =>
                selectedTag' = Some(d.id)
           /\ d.type = "tag" /\ selectedTag = Some(d.id) =>
                selectedTag' = None
           /\ d.type = "tag" /\ selectedTag \notin {None, Some(d.id)} =>
                selectedTag' = Some(d.id)
           /\ d.type # "tag" => selectedTag' = selectedTag
           /\ Len(selectedTag') <= 1 ]_vars

\* Security was clicked in the graph with the tag nodes UI and Security:
\* Security is selected, its line is emphasised and the lines to UI are
\* not
C19_Witness ==
  /\ Handled(event, "click")
  /\ nodes[event[1].node].label = S_Security
  /\ selectedTag = Some(TagPrefix \o S_Security)
  /\ \E i \in TagNodes : nodes[i].label = S_UI
  /\ \E k \in LinksOfType("has-tag") :
       links[k].target = TagPrefix \o S_Security /\ lines[k].width = 4
  /\ \A k \in LinksOfType("has-tag") :
       links[k].target = TagPrefix \o S_UI => lines[k].width = 2


\* whether entity node i has a has-tag link to the tag node of id t
ConnectedTo(i, t) ==
  /\ nodes[i].type = "requirement"
  /\ \E k \in LinksOfType("has-tag") :
       links[k].source = nodes[i].id /\ links[k].target = t

\* C20: while the graph is shown with no link hovered and no drag active,
\* the lines with the emphasised outline are exactly the has-tag links of
\* the selected tag and the highlight circles with it are exactly those of
\* the entity nodes linked to that tag; with no tag selected there is
\* none.
C20_EmphasisFollowsSelection ==
  (mounted /\ view = "graph" /\ hovered = None /\ gestures = {}) =>
    /\ \A k \in 1..Len(links) :
         lines[k].width = 4 <=>
           /\ selectedTag # None
           /\ links[k].type = "has-tag"
           /\ links[k].target = selectedTag[1]
    /\ \A i \in 1..Len(nodes) :
         circles[i].width = 4 <=>
           (selectedTag # None /\ ConnectedTo(i, selectedTag[1]))


-----------------------------------------------------------------------------
(* Properties of the hover styling (SpecSelect).                           *)

\* the opacity, in hundredths, a circle is shown at
OpacityOf(c) == Shown(c).opacity[1]

\* whether a step is the mouseover of a same-source link
HoverBegins ==
  Handled(event', "mouseover") /\ links[event'[1].link].type = "same-source"

\* C21: once the pointer is over a same-source link of document D, the
\* same-source lines of D, and no other line, are at the emphasised
\* opacity and every other line is below its default opacity; the entity
\* nodes of D, and no other node, are at full opacity with an outline in
\* the colour of D, and every other node, entity or tag, is dimmed.
C21_HoverStyling ==
  [][ HoverBegins =>
        LET D == links[event'[1].link].sourceDocument
            member(i) == nodes[i].type = "requirement" /\
                         nodes[i].sourceDocument = D
        IN /\ \A j \in 1..Len(links) :
                IF links[j].type = "same-source" /\ links[j].sourceDocument = D
                THEN lines'[j].opacity = 90
                ELSE lines'[j].opacity <
                       (IF links[j].type = "has-tag" THEN 60 ELSE 45)
           /\ \A i \in 1..Len(nodes) :
                IF member(i)
                THEN /\ OpacityOf(mains'[i]) = 100
                     /\ OpacityOf(circles'[i]) = 100
                     /\ circles'[i].stroke =
                          MapGet(closure[1].sourceColorMap, D[1])
                     /\ circles'[i].width > 0
                ELSE OpacityOf(mains'[i]) < 100 ]_vars


\* whether a step leaves the pointer over the same-source link it is over
HoverGoesOn ==
  /\ hovered # None
  /\ hovered' = hovered
  /\ links' = links
  /\ links[hovered[1]].type = "same-source"

\* C22: while the pointer stays over a same-source link, no step, a change
\* of the selected tag included, changes what the mouseover put on the
\* nodes and the lines: the circles and the line opacities stay as they
\* are until the hover ends.
C22_HoverKeepsPriority ==
  [][ HoverGoesOn =>
        /\ circles' = circles
        /\ \A j \in 1..Len(links) : lines'[j].opacity = lines[j].opacity
     ]_vars


-----------------------------------------------------------------------------
(* Properties of drags and ticks (SpecDrag).                               *)

\* the nodes of the graph shown that a gesture is dragging
DraggedNodes == {g.node : g \in {h \in gestures : Current(h)}}

\* the nodes of the graph shown that are pinned
PinnedNodes == {i \in 1..Len(pin) : pin[i] # None}

\* C23: a node is pinned exactly while it is dragged.  A gesture that
\* starts on a node pins it where it is; a pin moves only to a place of
\* the pointer of a gesture on the node; a tick puts a pinned node at its
\* pin; the end of a gesture on a node removes its pin; and in every state
\* the pinned nodes are the nodes some gesture is dragging, so that with no
\* gesture in progress no node is pinned.
C23_PinnedWhileDragged ==
  [][ /\ \A g \in gestures' \ gestures :
           pin'[g.node] = Some(pos[g.node])
      /\ \A g \in gestures \ gestures' :
           Current(g) => pin'[g.node] = None
      /\ (gestures' = gestures /\ nodes' = nodes /\ cleanup' = cleanup) =>
           \A i \in 1..Len(pin) :
             pin'[i] # pin[i] =>
               /\ i \in DraggedNodes
               /\ \E pt \in Points : pin'[i] = Some(pt)
      /\ (Handled(event', "tick") /\ cleanup = Some(event'[1].sim)) =>
           \A i \in PinnedNodes : pos'[i] = pin[i][1] /\ pin'[i] = pin[i]
      /\ PinnedNodes' = DraggedNodes' ]_vars


\* the gestures of a set that began on the elements of simulation sim
GesturesOn(gs, sim) == {g \in gs : g.sim = sim}

\* C24: the alphaTarget of a simulation is raised exactly while a gesture
\* that began on its elements is active.  The start of the first gesture
\* raises it and leaves the simulation running, also one that had cooled;
\* a start or an end that leaves another gesture of the simulation active
\* changes nothing of the simulation; the end of the last gesture returns
\* it to 0, where it stays until a gesture starts.
C24_HeatWhileDragged ==
  [][ \A sim \in 1..Len(sims) :
        /\ Len(sims') >= Len(sims)
        /\ sims'[sim].alphaTarget =
             (IF GesturesOn(gestures', sim) # {} THEN 3 ELSE 0)
        /\ (GesturesOn(gestures, sim) = {} /\
            GesturesOn(gestures', sim) # {}) => sims'[sim].running
        /\ (GesturesOn(gestures, sim) # GesturesOn(gestures', sim) /\
            GesturesOn(gestures, sim) \cap GesturesOn(gestures', sim) # {})
             => sims'[sim] = sims[sim] ]_vars

\* a simulation that ticks under two gestures, its alphaTarget raised
C24_Witness ==
  /\ Cardinality(GesturesOn(gestures, 1)) = 2
  /\ sims[1].alphaTarget = 3
  /\ sims[1].running
  /\ Handled(event, "tick")
  /\ event[1].sim = 1


\* whether a step is a tick of the simulation of the graph shown
TickOfCurrent == Handled(event', "tick") /\ cleanup = Some(event'[1].sim)

\* C25: right after a tick every node group is translated to the position
\* its node then has and every line runs from the position of its source
\* node to the position of its target node; the tick changes no node, link,
\* pin, style, selection, legend or colour state.
C25_TickPaintsPositions ==
  [][ TickOfCurrent =>
        /\ \A i \in 1..Len(nodes) : transform'[i] = Some(pos'[i])
        /\ \A k \in 1..Len(links) :
             \A i, j \in 1..Len(nodes) :
               (nodes[i].id = links[k].source /\
                nodes[j].id = links[k].target)
                 => ends'[k] = Some(<<pos'[i], pos'[j]>>)
        /\ UNCHANGED <<colorSvc, requirements, mounted, view, nodes, links,
                       closure, lines, circles, mains, hovered, pin, allTags,
                       legend, selectedTag, cleanup, gestures, chip>> ]_vars

\* a tick has moved the free node and kept the dragged node at the place
\* of the pointer; the line joins the two
C25_Witness ==
  /\ Handled(event, "tick")
  /\ Len(nodes) = 2
  /\ pin[1] = Some(<<0, 1>>)
  /\ pos = <<(<<0, 1>>), (<<0, 0>>)>>
  /\ transform = <<Some(<<0, 1>>), Some(<<0, 0>>)>>
  /\ ends = <<Some(<<(<<0, 1>>), (<<0, 0>>)>>)>>


-----------------------------------------------------------------------------
(* Properties of the anchors (SpecBuild).                                  *)

\* the source documents of the entities in the order of first appearance
RECURSIVE DocsInOrder(_)
DocsInOrder(n) ==
  IF n = 0 THEN <<>>
  ELSE LET before == DocsInOrder(n - 1)
           d == GroupOf(Entities[n])
       IN IF \E k \in 1..Len(before) : before[k] = d
          THEN before ELSE Append(before, d)

\* C26: the build keeps exactly one anchor for each distinct source
\* document, the k-th document in the order of first appearance, of n, at
\* the fraction (k - 1) / max(1, n) of the full turn, so that two documents
\* have different anchors; the target of every entity node is the anchor
\* of its document and the target of every tag node is the centre.
C26_AnchorsAndTargets ==
  (mounted /\ Len(Entities) > 0) =>
    LET docs == DocsInOrder(Len(Entities))
        n == Len(docs)
        sc == closure[1].sourceCenters
    IN /\ Len(sc) = n
       /\ \A k \in 1..n :
            /\ sc[k].key = docs[k]
            /\ sc[k].val = [idx |-> k - 1, of |-> IF n > 1 THEN n ELSE 1]
       /\ \A k, l \in 1..n : k # l => sc[k].val # sc[l].val
       /\ \A i \in 1..Len(Entities) :
            \E k \in 1..n :
              /\ docs[k] = GroupOf(Entities[i])
              /\ closure[1].targets[i] = Some(sc[k].val)
       /\ \A i \in TagNodes : closure[1].targets[i] = None

\* three entities, the second without a document and the others of doc1,
\* and a tag: doc1 at 0 of 2 and unknown-source at 1 of 2
C26_Witness ==
  /\ mounted
  /\ Len(Entities) = 3
  /\ DocsInOrder(3) = <<S_doc1, UnknownSource>>
  /\ GroupOf(Entities[3]) = S_doc1
  /\ closure[1].targets[3] = Some([idx |-> 0, of |-> 2])
  /\ closure[1].targets[2] = Some([idx |-> 1, of |-> 2])
  /\ TagNodes # {}


-----------------------------------------------------------------------------
(* Properties of a stopped simulation (SpecDrag).                          *)

\* the simulations that stop() was called on
StoppedSims == {s \in 1..Len(sims) : sims[s].stops > 0}

\* C27: a simulation that stop() was called on, by a rebuild or by the
\* unmount, does not run after any later step, the end of a gesture that
\* began before the stop included; no later step is a tick of it, and no
\* step of a gesture on it moves what is on screen; while the component is
\* unmounted no simulation runs.
C27_StoppedForGood ==
  [][(\A s \in StoppedSims :
        /\ s \in 1..Len(sims')
        /\ sims'[s].stops > 0
        /\ ~sims'[s].running
        /\ ~(Handled(event', "tick") /\ event'[1].sim = s)
        /\ (\E g \in gestures \ gestures' : g.sim = s)
             => UNCHANGED <<pos, transform, ends, pin>>)
     /\ (~mounted' => \A t \in 1..Len(sims') : ~sims'[t].running)]_vars

\* the first simulation was stopped by a rebuild during a drag, the
\* gesture is still in progress, and the simulation of the rebuild ticks
C27_Witness ==
  /\ Len(sims) = 2
  /\ sims[1].stops = 1
  /\ sims[1].alphaTarget = 3
  /\ \E g \in gestures : g.sim = 1
  /\ sims[2].running
  /\ Handled(event, "tick")
  /\ event[1].sim = 2


-----------------------------------------------------------------------------
(* The frame of a click (SpecDrag).                                        *)

-----------------------------------------------------------------------------
(* Properties of the cache and of the used-set (SpecColor).                *)

\* the names the cache may have as keys: those of the names of the colour
\* specification, as given or in lower case, that have no upper-case
\* letter and contain the word of no rule
UnruledKeys ==
  {k \in ColorNames \cup {toLowerCase(n) : n \in ColorNames} :
     /\ \A c \in 1..Len(k) : \A i \in 1..Len(UpperChars) :
          k[c] # UpperChars[i]
     /\ RulesMatching(k) = {}}

\* what holds of the state st = [cache, used] of module m
CacheSound(m, st) ==
  /\ st.used \subseteq PaletteSet(m)
  /\ \A k \in DOMAIN st.cache :
       /\ st.cache[k] \in PaletteSet(m)
       /\ k \in UnruledKeys

\* C29: before and after every call the used-set holds colours of the
\* palette only, every cached colour is a colour of the palette and every
\* key of the cache is a name in lower case that contains the word of no
\* rule; a call leaves every entry of the cache as it was, also the call
\* that clears the used-set.
C29_CacheSoundAndKept ==
  [][\A m \in DOMAIN colorSvc :
       /\ CacheSound(m, colorSvc[m])
       /\ CacheSound(m, colorSvc'[m])
       /\ \A k \in DOMAIN colorSvc[m].cache :
            /\ k \in DOMAIN colorSvc'[m].cache
            /\ colorSvc'[m].cache[k] = colorSvc[m].cache[k]]_vars

\* the used-set was cleared when the palette was used up, the cache holds
\* one more key than the palette has colours, and the name asked last,
\* "A", is in the cache as "a"
C29_Witness ==
  /\ Cardinality(DOMAIN colorSvc[TagColorsModule].cache) = PaletteSize + 1
  /\ Cardinality(colorSvc[TagColorsModule].used) = 1
  /\ chip # None
  /\ chip[1].name = S_A
  /\ S_a \in DOMAIN colorSvc[TagColorsModule].cache
  /\ S_A \notin DOMAIN colorSvc[TagColorsModule].cache


-----------------------------------------------------------------------------
(* Self-loops (SpecBuild).                                                 *)

\* C30: in the model a build produces for any entity list, lists with a
\* repeated id included, no same-source edge joins a node id to itself.
C30_NoSelfLoop ==
  mounted =>
    \A k \in LinksOfType("same-source") : links[k].source # links[k].target

=============================================================================
